---------------------------- MODULE Spec2Model ----------------------------
(***************************************************************************)
(* A model of the shopify-report pipeline:                                 *)
(*   order_puller.py  fetch_orders / save_outputs   (the Order Fetcher)    *)
(*   run_report.py    main / run                    (the orchestrator)     *)
(*   Cleaner.py       main                          (the Normalizer)       *)
(*   Reporter.py      main                          (the Aggregator)       *)
(* The three programs are separate processes; each has its own variables   *)
(* and its own specification (SpecFetch, SpecRun, SpecPipeline).           *)
(***************************************************************************)
EXTENDS Integers, Sequences, FiniteSets, TLC

VARIABLES
    \* ---- order_puller.py ----
    f_pc,          \* "idle" | "request" | "returned" | "saved" | "failed"
    url,           \* the URL of the next request
    params,        \* "filters" (the caller's query parameters) or "none"
    all_orders,    \* the accumulated orders
    reqs,          \* log: the requests issued, in order
    resps,         \* log: the status of each response, in order (NoResponse
                   \* when requests.get raised instead of returning)
    num_pages,     \* the number of pages the server holds
    last_sleep,    \* the argument of the last time.sleep
    raw_written,   \* save_outputs has written raw_orders.json
    raw_json,      \* the content of raw_orders.json
    \* ---- run_report.py ----
    r_pc,          \* "idle" | "check" | "pull" | "clean" | "report" | "tail" | "returned"
    args,          \* the parsed command line flags
    scripts_exist, \* the three stage scripts are beside run_report.py
    started,       \* log: the stages whose process was started, in order
    exits,         \* log: the exit code of each stage process that ended
    interrupted,   \* a KeyboardInterrupt was raised inside the try block
    rc,            \* <<>> while running, <<code>> once main returned
    \* ---- Cleaner.py and Reporter.py ----
    p_pc,          \* "idle" | "raw" | "clean" | "report"
    raw_orders,    \* the content of raw_orders.json
    clean_csv,     \* the rows of clean_orders.csv
    summary,       \* sheet Summary_Raw
    daily,         \* sheet Daily_Raw
    products_units,\* sheet Top_Units_Raw
    products_rev   \* sheet Top_Revenue_Raw

fvars == <<f_pc, url, params, all_orders, reqs, resps, num_pages, last_sleep,
           raw_written, raw_json>>
rvars == <<r_pc, args, scripts_exist, started, exits, interrupted, rc>>
pvars == <<p_pc, raw_orders, clean_csv, summary, daily, products_units,
           products_rev>>
vars == <<fvars, rvars, pvars>>

\* ------------------------------------------------------------------------
\* Bounds of the model
\* ------------------------------------------------------------------------
MaxPages == 3          \* the server holds 1..MaxPages pages
MaxRetries == 3        \* at most this many 429 responses in one fetch
BatchSize == 2         \* orders per page

\* ------------------------------------------------------------------------
\* Generic helpers
\* ------------------------------------------------------------------------
RECURSIVE Concat(_, _)
\* f[1] \o f[2] \o ... \o f[n]
Concat(f, n) == IF n = 0 THEN <<>> ELSE Concat(f, n - 1) \o f[n]

\* ========================================================================
\* order_puller.py
\* ========================================================================

\* The remote API: the statuses it may answer with.
Statuses == {200, 429, 401, 404, 500, 503}

\* The log entry of a request that got no response: requests.get raised
\* (connection error, timeout after 30 s).
NoResponse == 0

\* Retry-After header values of a 429 response: absent, integer seconds,
\* or a value int() cannot parse (e.g. "2.0").
RetryAfterValues == {"absent", "1", "2.0"}

BaseUrl == [kind |-> "base", page |-> 1]
LinkUrl(p) == [kind |-> "link", page |-> p]

\* The orders of page p of the server's result set.
Batch(p) == [i \in 1..BatchSize |-> (p - 1) * BatchSize + i]

\* The Link header of page p: a comma separated list of <url>; rel="..."
\* parts, "previous" before "next"; no header at all when there is neither.
LinkHeader(p, k) ==
    (IF p > 1 THEN <<[rel |-> "previous", url |-> LinkUrl(p - 1)]>> ELSE <<>>)
    \o (IF p < k THEN <<[rel |-> "next", url |-> LinkUrl(p + 1)]>> ELSE <<>>)

\* The response of the server to a request for url u, answered with status s.
ServerResponse(u, s, ra, k) ==
    [status      |-> s,
     retry_after |-> ra,
     orders      |-> IF s = 200 THEN Batch(u.page) ELSE <<>>,
     link        |-> IF s = 200 THEN LinkHeader(u.page, k) ELSE <<>>]

NoLink == [kind |-> "none", page |-> 0]

RECURSIVE extract_from(_, _)
extract_from(parts, i) ==
    IF i > Len(parts) THEN NoLink
    ELSE IF parts[i].rel = "next" THEN parts[i].url
    ELSE extract_from(parts, i + 1)

\* A bug: only the first part of the header is looked at.
extract_next_link_first_only(parts) ==
    IF parts = <<>> THEN NoLink
    ELSE IF parts[1].rel = "next" THEN parts[1].url ELSE NoLink

\* extract_next_link: None for a missing header, else the url of the first
\* part that carries rel="next", else None.
extract_next_link(parts) ==
    IF parts = <<>> THEN NoLink ELSE extract_from(parts, 1)

\* A bug: only server errors raise.
raise_for_status_5xx_only(s) == s >= 500 /\ s < 600

\* requests.Response.raise_for_status: raises HTTPError for 4xx and 5xx.
raise_for_status(s) == s >= 400 /\ s < 600

\* int(resp.headers.get("Retry-After", "2")): the parsed value, or <<>> when
\* int() raises ValueError.
RetryAfterSeconds(ra) ==
    LET text == IF ra = "absent" THEN "2" ELSE ra
    IN  IF text = "1" THEN <<1>> ELSE IF text = "2" THEN <<2>> ELSE <<>>

Count429 == Cardinality({i \in 1..Len(resps) : resps[i] = 429})

FetchInit ==
    /\ f_pc = "request"
    /\ url = BaseUrl
    /\ params = "filters"
    /\ all_orders = <<>>
    /\ reqs = <<>>
    /\ resps = <<>>
    /\ num_pages \in 1..MaxPages
    /\ last_sleep = 0
    /\ raw_written = FALSE
    /\ raw_json = <<>>
    \* run_report.py, Cleaner.py and Reporter.py are not running
    /\ r_pc = "idle"
    /\ args = [skip_pull |-> FALSE, skip_clean |-> FALSE,
               skip_report |-> FALSE, open |-> FALSE]
    /\ scripts_exist = TRUE
    /\ started = <<>>
    /\ exits = <<>>
    /\ interrupted = FALSE
    /\ rc = <<>>
    /\ p_pc = "idle"
    /\ raw_orders = <<>>
    /\ clean_csv = <<>>
    /\ summary = <<>>
    /\ daily = <<>>
    /\ products_units = <<>>
    /\ products_rev = <<>>

\* A bug: the parameters are cleared before the retry.
Retry429_clears_params(resp) ==
    /\ resp.status = 429
    /\ reqs' = Append(reqs, [url |-> url, params |-> params])
    /\ resps' = Append(resps, resp.status)
    /\ IF RetryAfterSeconds(resp.retry_after) = <<>>
       THEN /\ f_pc' = "failed"
            /\ UNCHANGED <<last_sleep, params>>
       ELSE /\ last_sleep' = RetryAfterSeconds(resp.retry_after)[1]
            /\ params' = "none"
            /\ UNCHANGED f_pc
    /\ UNCHANGED <<url, all_orders, num_pages, raw_written, raw_json>>

\* One iteration of the loop that ends in `continue`: the response is a 429.
\* The sleep length is parsed with int(); a value it cannot parse raises
\* ValueError out of fetch_orders.
Retry429(resp) ==
    /\ resp.status = 429
    /\ reqs' = Append(reqs, [url |-> url, params |-> params])
    /\ resps' = Append(resps, resp.status)
    /\ IF RetryAfterSeconds(resp.retry_after) = <<>>
       THEN /\ f_pc' = "failed"
            /\ UNCHANGED last_sleep
       ELSE /\ last_sleep' = RetryAfterSeconds(resp.retry_after)[1]
            /\ UNCHANGED f_pc
    /\ UNCHANGED <<url, params, all_orders, num_pages, raw_written, raw_json>>

\* One iteration that ends in raise_for_status raising HTTPError.
FetchError(resp) ==
    /\ resp.status # 429
    /\ raise_for_status(resp.status)
    /\ reqs' = Append(reqs, [url |-> url, params |-> params])
    /\ resps' = Append(resps, resp.status)
    /\ f_pc' = "failed"
    /\ UNCHANGED <<url, params, all_orders, num_pages, last_sleep,
                   raw_written, raw_json>>

\* One iteration that reads a page: extend all_orders, then follow the next
\* link or leave the loop.
FetchPage(resp) ==
    /\ resp.status # 429
    /\ ~raise_for_status(resp.status)
    /\ reqs' = Append(reqs, [url |-> url, params |-> params])
    /\ resps' = Append(resps, resp.status)
    /\ all_orders' = all_orders \o resp.orders
    /\ LET next_link == extract_next_link(resp.link)
       IN  IF next_link = NoLink
           THEN /\ f_pc' = "returned"
                /\ UNCHANGED <<url, params>>
           ELSE /\ url' = next_link
                /\ params' = "none"
                /\ UNCHANGED f_pc
    /\ UNCHANGED <<num_pages, last_sleep, raw_written, raw_json>>

\* requests.get raises: the exception leaves fetch_orders and the process.
FetchNetworkError ==
    /\ f_pc = "request"
    /\ reqs' = Append(reqs, [url |-> url, params |-> params])
    /\ resps' = Append(resps, NoResponse)
    /\ f_pc' = "failed"
    /\ UNCHANGED <<url, params, all_orders, num_pages, last_sleep,
                   raw_written, raw_json>>
    /\ UNCHANGED <<rvars, pvars>>

\* while True: resp = requests.get(url, headers, params) ...
FetchIterate ==
    /\ f_pc = "request"
    /\ UNCHANGED <<rvars, pvars>>
    /\ \E s \in Statuses, ra \in RetryAfterValues :
         /\ s = 429 => Count429 < MaxRetries
         /\ s # 429 => ra = "absent"
         /\ LET resp == ServerResponse(url, s, ra, num_pages)
            IN  \/ Retry429(resp)
                \/ FetchError(resp)
                \/ FetchPage(resp)

\* __main__: save_outputs(orders) after fetch_orders returned.
SaveOutputs ==
    /\ f_pc = "returned"
    /\ raw_written' = TRUE
    /\ raw_json' = all_orders
    /\ f_pc' = "saved"
    /\ UNCHANGED <<url, params, all_orders, reqs, resps, num_pages, last_sleep>>
    /\ UNCHANGED <<rvars, pvars>>

FetchNext == FetchIterate \/ FetchNetworkError \/ SaveOutputs

\* ========================================================================
\* run_report.py
\* ========================================================================

\* Exit codes of a stage process.
ExitCodes == {0, 1, 2}

InterruptCode == 130
MissingScriptsCode == 1

Stages == <<"pull", "clean", "report">>

Skipped(stage) ==
    IF stage = "pull" THEN args.skip_pull
    ELSE IF stage = "clean" THEN args.skip_clean
    ELSE args.skip_report

After(stage) ==
    IF stage = "pull" THEN "clean"
    ELSE IF stage = "clean" THEN "report"
    ELSE "tail"

RunInit ==
    /\ r_pc = "check"
    /\ args \in [skip_pull : BOOLEAN, skip_clean : BOOLEAN,
                 skip_report : BOOLEAN, open : BOOLEAN]
    /\ scripts_exist \in BOOLEAN
    /\ started = <<>>
    /\ exits = <<>>
    /\ interrupted = FALSE
    /\ rc = <<>>
    \* the stage programs are modelled by their exit codes only
    /\ f_pc = "idle"
    /\ url = BaseUrl
    /\ params = "filters"
    /\ all_orders = <<>>
    /\ reqs = <<>>
    /\ resps = <<>>
    /\ num_pages = 1
    /\ last_sleep = 0
    /\ raw_written = FALSE
    /\ raw_json = <<>>
    /\ p_pc = "idle"
    /\ raw_orders = <<>>
    /\ clean_csv = <<>>
    /\ summary = <<>>
    /\ daily = <<>>
    /\ products_units = <<>>
    /\ products_rev = <<>>

\* A bug: subprocess.run without check=True never raises.
run_without_check(code) == FALSE

\* run: subprocess.run(cmd, check=True) raises CalledProcessError when the
\* process exits non-zero.
run_raises(code) == code # 0

\* if not puller.exists() or ...: return 1
CheckScripts ==
    /\ r_pc = "check"
    /\ IF scripts_exist
       THEN /\ r_pc' = "pull"
            /\ UNCHANGED rc
       ELSE /\ r_pc' = "returned"
            /\ rc' = <<MissingScriptsCode>>
    /\ UNCHANGED <<args, scripts_exist, started, exits, interrupted>>
    /\ UNCHANGED <<fvars, pvars>>

\* if not args.skip_<stage>: run([...]) -- the stage is skipped, or its
\* process runs and exits with some code, or the user interrupts it.
RunStage(stage) ==
    /\ r_pc = stage
    /\ \/ /\ Skipped(stage)
          /\ r_pc' = After(stage)
          /\ UNCHANGED <<started, exits, interrupted, rc>>
       \/ /\ ~Skipped(stage)
          /\ \E code \in ExitCodes :
               /\ started' = Append(started, stage)
               /\ exits' = Append(exits, code)
               /\ IF run_raises(code)
                  THEN /\ r_pc' = "returned"
                       /\ rc' = <<code>>
                  ELSE /\ r_pc' = After(stage)
                       /\ UNCHANGED rc
               /\ UNCHANGED interrupted
       \/ /\ ~Skipped(stage)
          /\ started' = Append(started, stage)
          /\ interrupted' = TRUE
          /\ r_pc' = "returned"
          /\ rc' = <<InterruptCode>>
          /\ UNCHANGED exits
    /\ UNCHANGED <<args, scripts_exist>>
    /\ UNCHANGED <<fvars, pvars>>

\* The end of the try block: open the report if asked, return 0; or the
\* user interrupts open_file.
Finish ==
    /\ r_pc = "tail"
    /\ \/ /\ r_pc' = "returned"
          /\ rc' = <<0>>
          /\ UNCHANGED interrupted
       \/ /\ args.open
          /\ interrupted' = TRUE
          /\ r_pc' = "returned"
          /\ rc' = <<InterruptCode>>
    /\ UNCHANGED <<args, scripts_exist, started, exits>>
    /\ UNCHANGED <<fvars, pvars>>

RunNext ==
    \/ CheckScripts
    \/ RunStage("pull")
    \/ RunStage("clean")
    \/ RunStage("report")
    \/ Finish

\* ========================================================================
\* Cleaner.py
\* ========================================================================
\* Nullable values are written <<>> (None, NaN, NaT) or <<v>>.  A JSON value
\* at a key that is coerced by the code is a record: a number (or numeric
\* string), null, a value the coercion cannot parse, or the key is absent.
Num(n) == [k |-> "num", v |-> n]
JNull == [k |-> "null", v |-> 0]
Bad == [k |-> "bad", v |-> 0]
Missing == [k |-> "absent", v |-> 0]
NaNCell == [k |-> "nan", v |-> 0]

\* Arithmetic of float columns: NaN absorbs.
MSub(a, b) == IF a = <<>> \/ b = <<>> THEN <<>> ELSE <<a[1] - b[1]>>
MMul(a, b) == IF a = <<>> \/ b = <<>> THEN <<>> ELSE <<a[1] * b[1]>>

\* parse_money: float(x), 0.0 when float() raises (None, unparsable text);
\* float(NaN) is NaN.
parse_money(x) ==
    IF x.k = "num" THEN <<x.v>>
    ELSE IF x.k = "nan" THEN <<>>
    ELSE <<0>>

\* dict.get(key): None when the key is absent.
DictGet(x) == IF x.k = "absent" THEN JNull ELSE x

RECURSIVE sum_shipping_from(_, _)
sum_shipping_from(x, i) ==
    IF i > Len(x) THEN 0
    ELSE parse_money(DictGet(x[i].price))[1] + sum_shipping_from(x, i + 1)

\* sum_shipping: the sum of the prices of the shipping lines (0.0 for a
\* value that is no list).
sum_shipping(x) == sum_shipping_from(x, 1)

RECURSIVE sum_transactions(_, _)
sum_transactions(ts, i) ==
    IF i > Len(ts) THEN 0
    ELSE (IF ts[i].kind = "refund"
          THEN parse_money(DictGet(ts[i].amount))[1] ELSE 0)
         + sum_transactions(ts, i + 1)

RECURSIVE sum_refunds_from(_, _)
sum_refunds_from(x, i) ==
    IF i > Len(x) THEN 0
    ELSE sum_transactions(x[i].transactions, 1) + sum_refunds_from(x, i + 1)

\* A bug: every transaction is counted, whatever its kind.
RECURSIVE sum_all_transactions(_, _)
sum_all_transactions(ts, i) ==
    IF i > Len(ts) THEN 0
    ELSE parse_money(DictGet(ts[i].amount))[1] + sum_all_transactions(ts, i + 1)

RECURSIVE sum_refunds_any_kind_from(_, _)
sum_refunds_any_kind_from(x, i) ==
    IF i > Len(x) THEN 0
    ELSE sum_all_transactions(x[i].transactions, 1)
         + sum_refunds_any_kind_from(x, i + 1)

sum_refunds_any_kind(x) == sum_refunds_any_kind_from(x, 1)

\* sum_refunds: over all refund entries, the amounts of the transactions of
\* kind "refund" (0.0 for a value that is no list).
sum_refunds(x) == sum_refunds_from(x, 1)

\* to_local_ts, then .dt.date: the local date, NaT for a missing or
\* unparsable timestamp.  The model's shop timezone is "UTC", the value
\* get_shop_timezone falls back to; a timestamp is the number of its day.
to_local_date(x) == IF x.k = "num" THEN <<x.v>> ELSE <<>>

\* The cell of column f in row i of pd.json_normalize(orders), after the
\* backfill of the expected columns: NaN when only other rows have the key,
\* None when no row has it.
OrderCell(orders, i, f) ==
    IF orders[i][f].k # "absent" THEN orders[i][f]
    ELSE IF \E j \in 1..Len(orders) : orders[j][f].k # "absent"
         THEN NaNCell ELSE JNull

\* The customer.id and customer.orders_count columns.
HasCustomerIdCol(orders) == \E j \in 1..Len(orders) : orders[j].customer.present
HasOrdersCountCol(orders) ==
    \E j \in 1..Len(orders) :
        orders[j].customer.present /\ orders[j].customer.orders_count.k # "absent"
CustomerId(o) == IF o.customer.present THEN o.customer.id ELSE <<>>
OrdersCount(o) ==
    IF o.customer.present /\ o.customer.orders_count.k # "absent"
    THEN o.customer.orders_count ELSE NaNCell

\* Series.notna
NotNa(x) == x.k \in {"num", "bad"}

\* pd.to_numeric(errors="coerce").fillna(0)
ToNumericFill0(x) == IF x.k = "num" THEN x.v ELSE 0

\* orders_df.groupby("customer.id")["id"].nunique(), then .get(cid, 0):
\* the number of distinct non-null order ids of the rows of customer cid.
cust_counts(orders, cid) ==
    IF cid = <<>> THEN 0
    ELSE Cardinality({orders[j].id[1] : j \in
            {j \in 1..Len(orders) : CustomerId(orders[j]) = cid /\ orders[j].id # <<>>}})

\* A bug: the rows of a customer are counted, not the distinct order ids.
is_repeat_customer_counts_rows(orders, i) ==
    IF HasOrdersCountCol(orders)
       /\ \E j \in 1..Len(orders) : NotNa(OrdersCount(orders[j]))
    THEN ToNumericFill0(OrdersCount(orders[i])) > 1
    ELSE IF HasCustomerIdCol(orders)
    THEN CustomerId(orders[i]) # <<>>
         /\ Cardinality({j \in 1..Len(orders) :
                           CustomerId(orders[j]) = CustomerId(orders[i])}) > 1
    ELSE FALSE

\* The repeat-customer flag of order i, computed on the order frame.
is_repeat_customer(orders, i) ==
    IF HasOrdersCountCol(orders)
       /\ \E j \in 1..Len(orders) : NotNa(OrdersCount(orders[j]))
    THEN ToNumericFill0(OrdersCount(orders[i])) > 1
    ELSE IF HasCustomerIdCol(orders)
    THEN cust_counts(orders, CustomerId(orders[i])) > 1
    ELSE FALSE

\* The line_items cell of a row of orders_df.explode("line_items"): NaN for
\* an order whose list is empty.
NoItem ==
    [sku |-> <<>>, title |-> <<>>, variant_id |-> <<>>, product_id |-> <<>>,
     quantity |-> Missing, price |-> Missing, total_discount |-> Missing]

\* A bug: an order without line items yields no row.
explode_drops_empty(items) == items

\* DataFrame.explode on one order: one entry per line item, one NaN entry
\* for an empty list.
explode(items) == IF items = <<>> THEN <<NoItem>> ELSE items

RECURSIVE Exploded(_, _)
\* The exploded frame: pairs of an order index and a line item.
Exploded(orders, i) ==
    IF i > Len(orders) THEN <<>>
    ELSE [n \in 1..Len(explode(orders[i].line_items)) |->
             [oi |-> i, item |-> explode(orders[i].line_items)[n]]]
         \o Exploded(orders, i + 1)

\* The cell of column li.<f> of pd.json_normalize(exploded["line_items"]),
\* after the backfill.
ItemCell(ex, n, f) ==
    IF ex[n].item[f].k # "absent" THEN ex[n].item[f]
    ELSE IF \E m \in 1..Len(ex) : ex[m].item[f].k # "absent"
         THEN NaNCell ELSE JNull

\* One row of `out`, with the columns of `want` under their public names.
FlatRow(orders, ex, n) ==
    LET i == ex[n].oi
        o == orders[i]
        subtotal == parse_money(OrderCell(orders, i, "subtotal_price"))
        discounts == parse_money(OrderCell(orders, i, "total_discounts"))
        refunds_amount == <<sum_refunds(o.refunds)>>
        quantity == ToNumericFill0(ItemCell(ex, n, "quantity"))
        price == parse_money(ItemCell(ex, n, "price"))
        line_discount == parse_money(ItemCell(ex, n, "total_discount"))
        line_gross == MMul(<<quantity>>, price)
    IN  [order_id |-> o.id,
         order_date |-> to_local_date(OrderCell(orders, i, "created_at")),
         currency |-> o.currency,
         is_repeat_customer |-> is_repeat_customer(orders, i),
         subtotal_price |-> subtotal,
         total_discounts |-> discounts,
         refunds_amount |-> refunds_amount,
         total_tax |-> parse_money(OrderCell(orders, i, "total_tax")),
         shipping_amount |-> <<sum_shipping(o.shipping_lines)>>,
         sku |-> ex[n].item.sku,
         title |-> ex[n].item.title,
         variant_id |-> ex[n].item.variant_id,
         product_id |-> ex[n].item.product_id,
         quantity |-> quantity,
         price |-> price,
         line_discount |-> line_discount,
         line_gross |-> line_gross,
         line_net |-> MSub(line_gross, line_discount),
         net_revenue |-> MSub(MSub(subtotal, discounts), refunds_amount)]

\* Order of sort_values: ascending, nulls last.
OptLess(a, b) ==
    IF a = <<>> THEN FALSE ELSE IF b = <<>> THEN TRUE ELSE a[1] < b[1]

RowLess(a, b) ==
    \/ OptLess(a.order_date, b.order_date)
    \/ a.order_date = b.order_date /\ OptLess(a.order_id, b.order_id)

RECURSIVE SortRows(_)
\* sort_values(["order_date", "order_id"]): a stable sort.
SortRows(s) ==
    IF s = <<>> THEN <<>>
    ELSE LET done == SortRows(SubSeq(s, 1, Len(s) - 1))
             x == s[Len(s)]
             k == Cardinality({j \in 1..Len(done) : ~RowLess(x, done[j])})
         IN  SubSeq(done, 1, k) \o <<x>> \o SubSeq(done, k + 1, Len(done))

\* The rows Cleaner.main writes for the orders of raw_orders.json.
CleanRows(orders) ==
    LET ex == Exploded(orders, 1)
    IN  SortRows([n \in 1..Len(ex) |-> FlatRow(orders, ex, n)])

\* Cleaner.main: read raw_orders.json, write clean_orders.csv.
CleanerMain ==
    /\ p_pc = "raw"
    /\ clean_csv' = CleanRows(raw_orders)
    /\ p_pc' = "clean"
    /\ UNCHANGED <<raw_orders, summary, daily, products_units, products_rev>>
    /\ UNCHANGED <<fvars, rvars>>

\* ========================================================================
\* Reporter.py
\* ========================================================================
TopN == 10

\* The strings pd.read_csv reads as NaN in a text column.
NaStrings == {"", "NA", "N/A", "NULL", "NaN", "None", "n/a", "nan", "null"}

\* A text cell after to_csv and read_csv: None is written as the empty
\* field, and the empty field is read as NaN.
ReadText(x) == IF x = <<>> \/ x[1] \in NaStrings THEN <<>> ELSE x

\* df = pd.read_csv(input_csv): the numeric and boolean cells come back as
\* written (NaN as NaN), the text cells through ReadText.
ReadCsv(rows) ==
    [n \in 1..Len(rows) |->
        [rows[n] EXCEPT !.sku = ReadText(@), !.title = ReadText(@)]]

RECURSIVE KeepRows(_, _, _)
\* The rows of df, in order, whose index satisfies keep.
KeepRows(df, keep, n) ==
    IF n > Len(df) THEN <<>>
    ELSE (IF n \in keep THEN <<df[n]>> ELSE <<>>) \o KeepRows(df, keep, n + 1)

\* df.drop_duplicates(subset=["order_id"]): the first row of each order_id
\* (NaN equals NaN here).
drop_duplicates(df) ==
    KeepRows(df, {n \in 1..Len(df) :
                    \A m \in 1..(n - 1) : df[m].order_id # df[n].order_id}, 1)

RECURSIVE SumSkipNa(_, _, _)
\* Series.sum(): NaN cells are skipped.
SumSkipNa(rows, col, n) ==
    IF n > Len(rows) THEN 0
    ELSE (IF rows[n][col] = <<>> THEN 0 ELSE rows[n][col][1])
         + SumSkipNa(rows, col, n + 1)

RECURSIVE SumInt(_, _, _)
SumInt(rows, col, n) ==
    IF n > Len(rows) THEN 0 ELSE rows[n][col] + SumInt(rows, col, n + 1)

RECURSIVE AscendingSeq(_)
\* The elements of a set of integers in ascending order.
AscendingSeq(S) ==
    IF S = {} THEN <<>>
    ELSE LET m == CHOOSE x \in S : \A y \in S : x <= y
         IN  <<m>> \o AscendingSeq(S \ {m})

\* orders.groupby("order_date", as_index=False)["net_revenue"].sum()
\* .sort_values("order_date"): groupby drops the rows whose key is NaN and
\* sorts the groups by key.
DailyRevenue(orders) ==
    LET dates == AscendingSeq({orders[n].order_date[1] :
                    n \in {n \in 1..Len(orders) : orders[n].order_date # <<>>}})
    IN  [d \in 1..Len(dates) |->
            [order_date |-> dates[d],
             net_revenue |-> SumSkipNa(
                 KeepRows(orders, {n \in 1..Len(orders) :
                                       orders[n].order_date = <<dates[d]>>}, 1),
                 "net_revenue", 1)]]

\* The lexicographic order of the strings of the model.
Alphabet == <<"", "A", "B", "T", "U">>
StrRank(s) == CHOOSE i \in 1..Len(Alphabet) : Alphabet[i] = s

KeyLess(a, b) ==
    \/ StrRank(a[1]) < StrRank(b[1])
    \/ a[1] = b[1] /\ StrRank(a[2]) < StrRank(b[2])

RECURSIVE SortedKeys(_)
SortedKeys(S) ==
    IF S = {} THEN <<>>
    ELSE LET m == CHOOSE x \in S : \A y \in S \ {x} : KeyLess(x, y)
         IN  <<m>> \o SortedKeys(S \ {m})

\* df.groupby(["sku", "title"], as_index=False)[col]: the group keys, sorted;
\* groupby drops the rows in which a key column is NaN.
GroupKeys(df) ==
    SortedKeys({<<df[n].sku[1], df[n].title[1]>> :
        n \in {n \in 1..Len(df) : df[n].sku # <<>> /\ df[n].title # <<>>}})

GroupRows(df, key) ==
    KeepRows(df, {n \in 1..Len(df) :
                    df[n].sku = <<key[1]>> /\ df[n].title = <<key[2]>>}, 1)

\* ... ["quantity"].sum()
GroupedUnits(df) ==
    LET keys == GroupKeys(df)
    IN  [g \in 1..Len(keys) |->
            [sku |-> keys[g][1], title |-> keys[g][2],
             metric |-> SumInt(GroupRows(df, keys[g]), "quantity", 1)]]

\* ... ["line_net"].sum()
GroupedRevenue(df) ==
    LET keys == GroupKeys(df)
    IN  [g \in 1..Len(keys) |->
            [sku |-> keys[g][1], title |-> keys[g][2],
             metric |-> SumSkipNa(GroupRows(df, keys[g]), "line_net", 1)]]

Perms(n) ==
    {p \in [1..n -> 1..n] : \A i, j \in 1..n : i # j => p[i] # p[j]}

\* sort_values(col, ascending=False) with the default kind="quicksort", which
\* is not stable: any descending arrangement of the rows can result.
SortDescending(g) ==
    {[i \in 1..Len(g) |-> g[p[i]]] :
        p \in {p \in Perms(Len(g)) :
                 \A i \in 1..(Len(g) - 1) : g[p[i]].metric >= g[p[i + 1]].metric}}

\* .head(n)
FirstRows(s, n) == SubSeq(s, 1, IF Len(s) < n THEN Len(s) ELSE n)

\* The rows of the two product sheets, under their column names.
UnitsSheet(u) ==
    [i \in 1..Len(u) |-> [sku |-> u[i].sku, title |-> u[i].title,
                          quantity |-> u[i].metric]]
RevenueSheet(r) ==
    [i \in 1..Len(r) |-> [sku |-> r[i].sku, title |-> r[i].title,
                          line_net |-> r[i].metric]]

\* The Summary_Raw sheet; the two quotients are kept as fractions.
Summary(orders) ==
    LET total_orders == Len(orders)
        total_revenue == SumSkipNa(orders, "net_revenue", 1)
        repeats == Cardinality({n \in 1..Len(orders) : orders[n].is_repeat_customer})
    IN  [total_orders |-> total_orders,
         total_revenue |-> total_revenue,
         aov |-> IF total_orders # 0 THEN <<total_revenue, total_orders>> ELSE <<0, 1>>,
         repeat_rate |-> IF total_orders # 0 THEN <<repeats, total_orders>> ELSE <<0, 1>>,
         taxes_total |-> SumSkipNa(orders, "total_tax", 1),
         shipping_total |-> SumSkipNa(orders, "shipping_amount", 1)]

\* Reporter.main: read clean_orders.csv, write the sheets of the workbook.
ReporterMain ==
    /\ p_pc = "clean"
    /\ LET df == ReadCsv(clean_csv)
           orders == drop_duplicates(df)
       IN  /\ summary' = Summary(orders)
           /\ daily' = DailyRevenue(orders)
           /\ \E u \in SortDescending(GroupedUnits(df)) :
                 products_units' = UnitsSheet(FirstRows(u, TopN))
           /\ \E r \in SortDescending(GroupedRevenue(df)) :
                 products_rev' = RevenueSheet(FirstRows(r, TopN))
    /\ p_pc' = "report"
    /\ UNCHANGED <<raw_orders, clean_csv>>
    /\ UNCHANGED <<fvars, rvars>>

PipeNext == CleanerMain \/ ReporterMain

\* ------------------------------------------------------------------------
\* The order sets the pipeline is run on
\* ------------------------------------------------------------------------
MaxOrders == 2         \* orders in raw_orders.json (line item and money sets)
MaxCustOrders == 3     \* orders in raw_orders.json (customer sets)

Item(s, t, q, p, d) ==
    [sku |-> s, title |-> t, variant_id |-> <<7>>, product_id |-> <<8>>,
     quantity |-> Num(q), price |-> Num(p), total_discount |-> Num(d)]

ItemA == Item(<<"A">>, <<"T">>, 1, 2, 0)
ItemB == Item(<<"B">>, <<"T">>, 1, 3, 1)
ItemNoSku == Item(<<>>, <<"T">>, 2, 1, 0)
ItemEmptySku == Item(<<"">>, <<"U">>, 1, 1, 0)
ItemOdd ==
    [sku |-> <<"B">>, title |-> <<"U">>, variant_id |-> <<>>, product_id |-> <<>>,
     quantity |-> Bad, price |-> Missing, total_discount |-> JNull]

NoCustomer == [present |-> FALSE, id |-> <<>>, orders_count |-> Missing]

BaseOrder ==
    [id |-> <<1>>, created_at |-> Num(1), currency |-> "USD",
     subtotal_price |-> Num(9), total_discounts |-> Num(1), total_tax |-> Num(1),
     shipping_lines |-> <<[price |-> Num(1)], [price |-> Missing]>>,
     refunds |-> <<>>, line_items |-> <<ItemA>>, customer |-> NoCustomer]

ItemLists ==
    {<<>>, <<ItemA>>, <<ItemB, ItemA>>, <<ItemNoSku, ItemA>>, <<ItemEmptySku>>,
     <<ItemOdd>>}

\* Orders that differ in their line items, date and id.
ItemOrders ==
    {[BaseOrder EXCEPT !.id = i, !.created_at = c, !.line_items = l,
                       !.subtotal_price = Num(5 + Len(l))] :
        i \in {<<1>>, <<2>>}, c \in {Num(2), Num(1), JNull}, l \in ItemLists}

Refund1 == [transactions |-> <<[kind |-> "refund", amount |-> Num(2)]>>]
Refund2 ==
    [transactions |-> <<[kind |-> "sale", amount |-> Num(4)],
                        [kind |-> "refund", amount |-> Num(1)],
                        [kind |-> "refund", amount |-> Bad]>>]

\* Orders that differ in their money fields and refunds.
MoneyOrders ==
    {[BaseOrder EXCEPT !.id = i, !.subtotal_price = s, !.total_discounts = d,
                       !.refunds = r,
                       !.line_items = IF i = <<1>> THEN <<ItemA, ItemB>>
                                      ELSE <<ItemNoSku>>] :
        i \in {<<1>>, <<2>>}, s \in {Num(9), Missing}, d \in {Num(1), Bad},
        r \in {<<>>, <<Refund1>>, <<Refund2>>, <<Refund1, Refund2>>}}

\* Orders that differ in their customer.
CustOrders ==
    {[BaseOrder EXCEPT !.id = i, !.customer = c] :
        i \in {<<1>>, <<2>>},
        c \in {NoCustomer}
              \cup [present : {TRUE}, id : {<<1>>, <<2>>},
                    orders_count : {Missing, Num(1), Num(2)}]}

SeqsUpTo(S, n) == UNION {[1..m -> S] : m \in 1..n}

\* raw_orders.json as Cleaner.main finds it: a list of one or more orders
\* (an empty list holds no order for the properties to speak of).
PipeInit ==
    /\ p_pc = "raw"
    /\ raw_orders \in SeqsUpTo(ItemOrders, MaxOrders)
                      \cup SeqsUpTo(MoneyOrders, MaxOrders)
                      \cup SeqsUpTo(CustOrders, MaxCustOrders)
    /\ clean_csv = <<>>
    /\ summary = <<>>
    /\ daily = <<>>
    /\ products_units = <<>>
    /\ products_rev = <<>>
    \* order_puller.py and run_report.py are not running
    /\ f_pc = "idle"
    /\ url = BaseUrl
    /\ params = "filters"
    /\ all_orders = <<>>
    /\ reqs = <<>>
    /\ resps = <<>>
    /\ num_pages = 1
    /\ last_sleep = 0
    /\ raw_written = FALSE
    /\ raw_json = <<>>
    /\ r_pc = "idle"
    /\ args = [skip_pull |-> FALSE, skip_clean |-> FALSE,
               skip_report |-> FALSE, open |-> FALSE]
    /\ scripts_exist = TRUE
    /\ started = <<>>
    /\ exits = <<>>
    /\ interrupted = FALSE
    /\ rc = <<>>

\* ========================================================================
\* Specifications
\* ========================================================================
SpecFetch == FetchInit /\ [][FetchNext]_vars

SpecRun == RunInit /\ [][RunNext]_vars

SpecPipeline == PipeInit /\ [][PipeNext]_vars

Init == FetchInit \/ RunInit \/ PipeInit

Next == FetchNext \/ RunNext \/ PipeNext

Spec == Init /\ [][Next]_vars

\* ========================================================================
\* Properties
\* ========================================================================
RECURSIVE SumOver(_, _)
\* The sum of f[x] over the elements x of the finite set S.
SumOver(S, f) ==
    IF S = {} THEN 0
    ELSE LET x == CHOOSE y \in S : TRUE IN f[x] + SumOver(S \ {x}, f)

Indices(s) == 1..Len(s)

\* The number of rows an order is expected to yield.
ExpectedRows(o) == IF Len(o.line_items) = 0 THEN 1 ELSE Len(o.line_items)

\* The orders whose id no other order of the set carries.
UniqueId(orders, i) == \A j \in Indices(orders) : j # i => orders[j].id # orders[i].id

RowsOf(rows, id) == {n \in Indices(rows) : rows[n].order_id = id}

OrderLevel(r) ==
    <<r.order_id, r.order_date, r.currency, r.subtotal_price, r.total_discounts,
      r.refunds_amount, r.total_tax, r.shipping_amount, r.is_repeat_customer>>

Cleaned == p_pc \in {"clean", "report"}

\* C1: the Normalizer emits N rows for an order with N >= 1 line items and
\* one row for an order without line items; the rows of an order carry the
\* same order-level fields and, one for one, the sku, title, variant_id and
\* product_id of its line items; the row of an empty order has null sku,
\* title, variant_id, product_id and quantity 0.
C1_RowsPerOrder ==
    Cleaned =>
      /\ Len(clean_csv) =
           SumOver(Indices(raw_orders), [i \in Indices(raw_orders) |->
                                            ExpectedRows(raw_orders[i])])
      /\ \A i \in Indices(raw_orders) :
           LET o == raw_orders[i]
               same == {j \in Indices(raw_orders) : raw_orders[j].id = o.id}
               mine == RowsOf(clean_csv, o.id)
           IN  /\ Cardinality(mine) =
                    SumOver(same, [j \in same |-> ExpectedRows(raw_orders[j])])
               /\ UniqueId(raw_orders, i) =>
                    /\ \A n, m \in mine :
                         OrderLevel(clean_csv[n]) = OrderLevel(clean_csv[m])
                    /\ \A x \in {<<it.sku, it.title, it.variant_id, it.product_id>> :
                                   it \in {o.line_items[k] : k \in Indices(o.line_items)}} :
                         Cardinality({n \in mine :
                             <<clean_csv[n].sku, clean_csv[n].title,
                               clean_csv[n].variant_id, clean_csv[n].product_id>> = x})
                         = Cardinality({k \in Indices(o.line_items) :
                             <<o.line_items[k].sku, o.line_items[k].title,
                               o.line_items[k].variant_id,
                               o.line_items[k].product_id>> = x})
                    /\ Len(o.line_items) = 0 =>
                         \A n \in mine :
                           /\ clean_csv[n].sku = <<>>
                           /\ clean_csv[n].title = <<>>
                           /\ clean_csv[n].variant_id = <<>>
                           /\ clean_csv[n].product_id = <<>>
                           /\ clean_csv[n].quantity = 0

C1_Witness ==
    /\ p_pc = "clean"
    /\ Len(raw_orders) = 2
    /\ raw_orders[1].id # raw_orders[2].id
    /\ Len(raw_orders[1].line_items) = 0
    /\ Len(raw_orders[2].line_items) = 2
    /\ Len(clean_csv) = 3

\* The refund total of an order, by the rule of the specification: the
\* amounts of the transactions of kind "refund" over all refund entries.
RefundTotal(o) ==
    LET pairs == UNION {{<<e, t>> : t \in
                          {t \in Indices(o.refunds[e].transactions) :
                             o.refunds[e].transactions[t].kind = "refund"}} :
                        e \in Indices(o.refunds)}
    IN  SumOver(pairs, [p \in pairs |->
            LET a == o.refunds[p[1]].transactions[p[2]].amount
            IN  IF a.k = "num" THEN a.v ELSE 0])

\* C2: net_revenue is the same on all rows of an order and is the order's
\* subtotal minus its total discounts minus refunds_amount, the sum of the
\* amounts of the transactions of kind "refund" of all its refund entries;
\* the line items play no part in it.
C2_NetRevenue ==
    Cleaned =>
      /\ \A n \in Indices(clean_csv) :
           LET r == clean_csv[n]
           IN  r.net_revenue =
                 IF r.subtotal_price = <<>> \/ r.total_discounts = <<>>
                 THEN <<>>
                 ELSE <<r.subtotal_price[1] - r.total_discounts[1]
                        - r.refunds_amount[1]>>
      /\ \A i \in Indices(raw_orders) :
           UniqueId(raw_orders, i) =>
             LET o == raw_orders[i]
             IN  \A n \in RowsOf(clean_csv, o.id) :
                   /\ clean_csv[n].refunds_amount = <<RefundTotal(o)>>
                   /\ \A m \in RowsOf(clean_csv, o.id) :
                        clean_csv[m].net_revenue = clean_csv[n].net_revenue
                   /\ (o.subtotal_price.k = "num" /\ o.total_discounts.k = "num") =>
                        clean_csv[n].net_revenue =
                          <<o.subtotal_price.v - o.total_discounts.v - RefundTotal(o)>>

C2_Witness ==
    /\ p_pc = "clean"
    /\ Len(raw_orders) = 1
    /\ raw_orders[1].refunds = <<Refund1, Refund2>>
    /\ raw_orders[1].subtotal_price = Num(9)
    /\ raw_orders[1].total_discounts = Num(1)
    /\ Len(clean_csv) = 2
    /\ clean_csv[1].price # clean_csv[2].price
    /\ clean_csv[1].net_revenue = <<5>>
    /\ clean_csv[2].net_revenue = <<5>>

\* The three-tier rule of the specification for the repeat-customer flag.
HasCount(o) == o.customer.present /\ o.customer.orders_count.k \notin {"absent", "null"}

RepeatRule(orders, i) ==
    LET o == orders[i]
    IN  IF \E j \in Indices(orders) : HasCount(orders[j])
        THEN HasCount(o) /\ o.customer.orders_count.k = "num"
             /\ o.customer.orders_count.v > 1
        ELSE IF \E j \in Indices(orders) : orders[j].customer.present
        THEN /\ o.customer.present
             /\ o.customer.id # <<>>
             /\ \E j, k \in Indices(orders) :
                  /\ orders[j].customer.present /\ orders[k].customer.present
                  /\ orders[j].customer.id = o.customer.id
                  /\ orders[k].customer.id = o.customer.id
                  /\ orders[j].id # <<>> /\ orders[k].id # <<>>
                  /\ orders[j].id # orders[k].id
        ELSE FALSE

\* C3: is_repeat_customer is the three-tier rule evaluated over the whole
\* order set: every order contributes its rows with its own flag.
C3_RepeatCustomer ==
    Cleaned =>
      \A i \in Indices(raw_orders) : \A b \in BOOLEAN :
        LET o == raw_orders[i]
            same == {j \in Indices(raw_orders) :
                       raw_orders[j].id = o.id /\ RepeatRule(raw_orders, j) = b}
        IN  Cardinality({n \in RowsOf(clean_csv, o.id) :
                           clean_csv[n].is_repeat_customer = b})
            = SumOver(same, [j \in same |-> ExpectedRows(raw_orders[j])])

C3_Witness ==
    /\ p_pc = "clean"
    /\ Len(raw_orders) = 3
    /\ \A i \in 1..3 : raw_orders[i].customer.present
                       /\ raw_orders[i].customer.orders_count = Missing
    /\ raw_orders[1].customer.id = <<1>> /\ raw_orders[1].id = <<1>>
    /\ raw_orders[2].customer.id = <<2>> /\ raw_orders[2].id = <<1>>
    /\ raw_orders[3].customer.id = <<1>> /\ raw_orders[3].id = <<2>>
    /\ \E n \in Indices(clean_csv) : clean_csv[n].is_repeat_customer
    /\ \E n \in Indices(clean_csv) : ~clean_csv[n].is_repeat_customer

AllSuccess == \A i \in Indices(resps) : resps[i] = 200

\* C4: when every response is a success, the fetch issues exactly one
\* request per page, the first with the filter parameters and then each next
\* link in turn, and returns the pages' batches concatenated in page order.
C4_Pagination ==
    (f_pc \in {"returned", "saved"} /\ AllSuccess) =>
      /\ Len(reqs) = num_pages
      /\ reqs[1] = [url |-> BaseUrl, params |-> "filters"]
      /\ \A i \in 2..Len(reqs) : reqs[i] = [url |-> LinkUrl(i), params |-> "none"]
      /\ all_orders = Concat([p \in 1..num_pages |-> Batch(p)], num_pages)
      /\ Len(all_orders) = num_pages * BatchSize
      /\ \A a, b \in Indices(all_orders) : a < b => all_orders[a] < all_orders[b]

C4_Witness ==
    /\ f_pc = "returned"
    /\ AllSuccess
    /\ num_pages = 3
    /\ Len(reqs) = 3

\* The pages answered with success before request i.
PagesBefore(i) == {j \in 1..(i - 1) : resps[j] = 200}

C6_ErrorIsFatal ==
    \A i \in Indices(resps) :
      resps[i] \notin {200, 429} =>
        /\ i = Len(reqs)
        /\ f_pc = "failed"
        /\ ~raw_written
        /\ raw_json = <<>>

C6_Witness ==
    /\ f_pc = "failed"
    /\ Len(resps) = 4
    /\ resps[1] = 200
    /\ resps[2] = 429
    /\ resps[3] = 200
    /\ resps[4] = 404
    /\ all_orders # <<>>
    /\ ~raw_written

NonSkipped == SelectSeq(Stages, LAMBDA s : ~Skipped(s))

\* C7: the orchestrator starts the stages that are not skipped in the order
\* pull, clean, report; a stage that exits non-zero is the last one started
\* and its exit code is returned; 0 is returned only when every stage that
\* is not skipped exited 0; 130 is returned on interruption.
C7_Orchestrator ==
    /\ Len(started) <= Len(NonSkipped)
    /\ \A i \in Indices(started) : started[i] = NonSkipped[i]
    /\ \A i \in Indices(exits) :
         exits[i] # 0 => /\ i = Len(started)
                         /\ r_pc = "returned"
                         /\ rc = <<exits[i]>>
    /\ (r_pc = "returned" /\ rc = <<0>>) =>
         /\ started = NonSkipped
         /\ Len(exits) = Len(started)
         /\ \A i \in Indices(exits) : exits[i] = 0
    /\ interrupted => (r_pc = "returned" /\ rc = <<130>>)

C7_Witness ==
    /\ r_pc = "returned"
    /\ started = <<"pull", "clean">>
    /\ exits = <<0, 2>>
    /\ rc = <<2>>
    /\ ~args.skip_report

\* The order-level view the specification describes: the first row of each
\* order_id of the FlatRow table.
FirstOfOrder == {n \in Indices(clean_csv) :
                   \A m \in 1..(n - 1) : clean_csv[m].order_id # clean_csv[n].order_id}

NetOf(n) == IF clean_csv[n].net_revenue = <<>> THEN 0 ELSE clean_csv[n].net_revenue[1]

\* The part of C8 that concerns the orders that have a date: one row per
\* date, in ascending order, holding the sum of net_revenue of the
\* deduplicated orders of that date.
C8_DatedOrders ==
    p_pc = "report" =>
      /\ \A n \in FirstOfOrder :
           clean_csv[n].order_date # <<>> =>
             LET on == {m \in FirstOfOrder :
                          clean_csv[m].order_date = clean_csv[n].order_date}
                 hit == {d \in Indices(daily) :
                           daily[d].order_date = clean_csv[n].order_date[1]}
             IN  /\ Cardinality(hit) = 1
                 /\ \A d \in hit :
                      daily[d].net_revenue = SumOver(on, [m \in on |-> NetOf(m)])
      /\ \A d \in Indices(daily) :
           \E n \in FirstOfOrder : clean_csv[n].order_date = <<daily[d].order_date>>
      /\ \A d, e \in Indices(daily) :
           d < e => daily[d].order_date < daily[e].order_date

\* C8: DailyRevenue has one row per order_date of the order set deduplicated
\* by order_id, in ascending order, each the sum of net_revenue of that
\* date's orders; no order is left out, so the rows add up to the sum of
\* net_revenue over the deduplicated order set.
C8_DailyRevenue ==
    /\ C8_DatedOrders
    /\ p_pc = "report" =>
         SumOver(Indices(daily), [d \in Indices(daily) |-> daily[d].net_revenue])
         = SumOver(FirstOfOrder, [n \in FirstOfOrder |-> NetOf(n)])

\* The first line-level row of a product group.
FirstRowOf(g) ==
    LET df == ReadCsv(clean_csv)
        at == {n \in Indices(df) : df[n].sku = <<g.sku>> /\ df[n].title = <<g.title>>}
    IN  CHOOSE n \in at : \A m \in at : n <= m

\* The part of C9 that concerns size and order: at most 10 rows, never
\* ascending.
C9_Descending ==
    p_pc = "report" =>
      /\ Len(products_units) <= 10
      /\ Len(products_rev) <= 10
      /\ \A i, j \in Indices(products_units) :
           i < j => products_units[i].quantity >= products_units[j].quantity
      /\ \A i, j \in Indices(products_rev) :
           i < j => products_rev[i].line_net >= products_rev[j].line_net

\* C9: each ranking has at most 10 rows, is descending by its metric, and
\* is stable: groups with equal metric values keep their relative input
\* order.  (Descending is read as "never ascending": read as "strictly",
\* the claim excludes the ties it goes on to speak of.)
C9_TopProducts ==
    /\ C9_Descending
    /\ p_pc = "report" =>
         /\ \A i, j \in Indices(products_units) :
              (i < j /\ products_units[i].quantity = products_units[j].quantity)
                => FirstRowOf(products_units[i]) < FirstRowOf(products_units[j])
         /\ \A i, j \in Indices(products_rev) :
              (i < j /\ products_rev[i].line_net = products_rev[j].line_net)
                => FirstRowOf(products_rev[i]) < FirstRowOf(products_rev[j])

\* The line items of the input whose sku is null.
NullSkuItems ==
    UNION {{<<i, k>> : k \in {k \in Indices(raw_orders[i].line_items) :
                                 raw_orders[i].line_items[k].sku = <<>>}} :
           i \in Indices(raw_orders)}

EmptyOrders == {i \in Indices(raw_orders) : Len(raw_orders[i].line_items) = 0}

\* The part of C10 that concerns the Normalizer: the rows with a null sku
\* are in clean_orders.csv, one per line item without sku and one per order
\* without line items.
C10_NullSkuRetained ==
    Cleaned =>
      Cardinality({n \in Indices(clean_csv) : clean_csv[n].sku = <<>>})
      = Cardinality(NullSkuItems) + Cardinality(EmptyOrders)

\* C10: rows with a null sku are retained by the Normalizer, and the
\* TopProducts grouping keeps them under a key of their own: the quantity
\* and line_net of every titled row are counted in a group of the rankings
\* (while a ranking holds fewer than 10 groups, none is cut off).
C10_NullSkuGrouped ==
    /\ C10_NullSkuRetained
    /\ p_pc = "report" =>
         LET df == ReadCsv(clean_csv)
             titled == {n \in Indices(df) : df[n].title # <<>>}
         IN  /\ Len(products_units) < 10 =>
                  SumOver(Indices(products_units),
                          [g \in Indices(products_units) |-> products_units[g].quantity])
                  = SumOver(titled, [n \in titled |-> df[n].quantity])
             /\ Len(products_rev) < 10 =>
                  SumOver(Indices(products_rev),
                          [g \in Indices(products_rev) |-> products_rev[g].line_net])
                  = SumOver(titled, [n \in titled |->
                        IF df[n].line_net = <<>> THEN 0 ELSE df[n].line_net[1]])

=============================================================================
